---------------------------- MODULE Spec2Model ----------------------------
(***************************************************************************)
(* State-machine model of the concurrency examples:                        *)
(*                                                                         *)
(*   - primes/procs.py: the hand-rolled process pool (job queue, result    *)
(*     queue, poison pill 0), specification SpecProcs / FairSpecProcs, and *)
(*     SpecProcsCrash where a worker process may be lost;                  *)
(*   - getflags/flags2_threadpool.py: download_many over a                 *)
(*     ThreadPoolExecutor and as_completed, specification Spec;            *)
(*   - getflags/flags2_sequential.py: download_one and the sequential      *)
(*     download_many, specification SpecSeq;                               *)
(*   - getflags/flags_threadpool_futures.py: download_many, which drains   *)
(*     after the with-block, specification SpecFutures;                    *)
(*   - getflags/flags_threadpool.py and primes/proc_pool.py: the pools     *)
(*     driven by Executor.map, specification SpecMap;                      *)
(*   - spinner_thread.py and spinner_proc.py: supervisor, spin and slow    *)
(*     with an Event, specification SpecSpinner / FairSpecSpinner;         *)
(*   - spinner_async.py: supervisor, spin and slow as coroutines on the    *)
(*     asyncio event loop, specification SpecAsync / FairSpecAsync.        *)
(* SpecAny runs either the thread pool of flags2_threadpool.py or procs.py.*)
(*                                                                         *)
(* Each specification moves only the variables of its own program and      *)
(* holds the others at their idle values.  Printing, the tqdm progress bar *)
(* and wall-clock measurements do not influence control flow; only the     *)
(* elapsed field of PrimeResult is kept (as an abstract duration).         *)
(*                                                                         *)
(* A KeyboardInterrupt is modelled while download_many drains: raised in   *)
(* the try block (future.result() / download_one), where the except clause *)
(* catches it, or raised while the for statement of the thread-pool        *)
(* version waits in as_completed, where no except clause applies.          *)
(* The executor is modelled by what submit, the worker threads and         *)
(* shutdown(wait=True) do to the work items: a worker thread gets the      *)
(* oldest item of the FIFO work queue (JobTake) and then calls the job     *)
(* (JobStart) in steps of its own; as_completed yields the                 *)
(* futures already finished at its start in any order (a set) and the      *)
(* others in the order they finish.                                        *)
(***************************************************************************)
EXTENDS Integers, Sequences, FiniteSets, TLC

(***************************************************************************)
(* Bounds of the model.                                                    *)
(***************************************************************************)
\* longest cc_list handed to download_many
MaxJobs == 3

\* longest batch NUMBERS handed to start_jobs
MaxNumbers == 2

\* largest number of worker processes
MaxProcs == 2

\* largest concur_req handed to download_many
MaxConcur == 2

\* longest cc_list handed to flags_threadpool_futures.download_many
MaxFutLen == 6

\* frames of the spinner that are counted
MaxFrames == 10

\* values a job input may take in the model: the poison pill 0, a prime and
\* an odd composite
JobVals == {0, 2, 9}

\* abstract durations measured by perf_counter
ElapsedVals == {1}

VARIABLES
    \* ---- primes/procs.py ----
    numbers,      \* NUMBERS, the batch handed to start_jobs
    procs,        \* number of worker processes
    jobs,         \* JobQueue: sequence of [n, id] (id is a ghost job identity)
    results,      \* ResultQueue: sequence of PrimeResult
    mpc,          \* position of the main process
    jput,         \* start_jobs: numbers already put
    pstarted,     \* start_jobs: processes already started
    sput,         \* start_jobs: poison pills already put
    wpc,          \* position of each worker process
    wn,           \* each worker's local n (with the ghost id)
    checked,      \* report: local counter
    procs_done,   \* report: local counter
    deqCount,     \* ghost: how often each job was dequeued
    checkCalls,   \* ghost: how often check() ran on each job
    pillsTaken,   \* ghost: poison pills (values 0) dequeued by each worker
    markersPut,   \* ghost: done-markers put by each worker
    \* ---- getflags/flags2_threadpool.py ----
    cc_list,      \* argument: country codes (by alphabetical rank)
    concur_req,   \* argument: max_workers of the executor
    tpc,          \* position of the thread running download_many
    to_do,        \* to_do_map in insertion order: future f |-> to_do[f]
    fstate,       \* state of each future's work item
    foutcome,     \* what each finished future holds
    waiting,      \* as_completed: its waiter is installed
    snap,         \* as_completed: futures found finished at its start
    arrived,      \* as_completed: waiter.finished_futures, completion order
    yielded,      \* futures the iterator has yielded
    status,       \* local of download_many
    error_msg,    \* local of download_many
    counter,      \* local of download_many
    texc,         \* exception propagating out of download_many
    interruptedAt,\* ghost: future whose result() was interrupted (0: none)
    drained,      \* ghost: futures whose loop body ran to its end
    leftAtExit,   \* ghost: futures not yet done when the with-block was left
    \* ---- getflags/flags2_sequential.py (shares cc_list, tpc, status,
    \*      error_msg, counter, texc, interruptedAt, drained) ----
    cc_iter,      \* local of download_many: sorted(cc_list)
    cc_pos,       \* codes the for loop has taken from cc_iter
    \* ---- getflags/flags_threadpool_futures.py (shares cc_list, tpc, to_do,
    \*      the executor's and as_completed's variables, texc) ----
    count,        \* local of download_many, bound by enumerate from 1 (0: unbound)
    cc_arg,       \* ghost: the cc_list download_many was called with
    \* ---- primes/proc_pool.py and getflags/flags_threadpool.py: the pools
    \*      driven by Executor.map (share numbers, cc_list, tpc, to_do, the
    \*      executor's variables, texc) ----
    res,          \* the results the iterator of executor.map has delivered
    retval,       \* what flags_threadpool.download_many returns
    deliveredIdx, \* ghost: the futures whose results were delivered, in order
    finished,     \* ghost: the futures in the order their jobs finished
    \* ---- spinner_thread.py, spinner_proc.py, spinner_async.py ----
    kind,         \* which spinner program runs: "thread", "proc" or "async"
    done_event,   \* the Event done: its flag
    sup,          \* position of supervisor
    spinner,      \* position of spin (the thread, process or task)
    char,         \* spin: position of itertools.cycle in the four characters
    shown,        \* spin: the status line is on the screen
    result,       \* local of supervisor (0: unbound)
    late_waits,   \* ghost: waits spin has begun after done was set (up to 2)
    ready,        \* asyncio: the event loop's queue of ready callbacks
    timers,       \* asyncio: the sleeps whose timer has not fired yet
    fut_waiter,   \* asyncio: state of the future the spin task awaits
    must_cancel,  \* asyncio: the spin task's _must_cancel flag
    cancels,      \* ghost: calls of cancel() on the spin task
    frames        \* ghost: frames the spinner has printed, up to MaxFrames

pvars == <<numbers, procs, jobs, results, mpc, jput, pstarted, sput, wpc, wn,
           checked, procs_done, deqCount, checkCalls, pillsTaken, markersPut>>

tvars == <<cc_list, concur_req, tpc, to_do, fstate, foutcome, waiting, snap,
           arrived, yielded, status, error_msg, counter, texc, interruptedAt,
           drained, leftAtExit>>

\* the variables only the thread-pool version uses
poolvars == <<concur_req, to_do, fstate, foutcome, waiting, snap, arrived,
              yielded, leftAtExit>>

svars == <<cc_iter, cc_pos>>

fvars == <<count, cc_arg>>

mvars == <<res, retval, deliveredIdx, finished>>

spvars == <<kind, done_event, sup, spinner, char, shown, result, late_waits, ready,
            timers, fut_waiter, must_cancel, cancels,
                   frames>>

vars == <<pvars, tvars, svars, fvars, mvars, spvars>>

(***************************************************************************)
(* primes/primes.py                                                        *)
(***************************************************************************)
RECURSIVE isqrtFrom(_, _)
isqrtFrom(n, r) == IF (r + 1) * (r + 1) > n THEN r ELSE isqrtFrom(n, r + 1)

isqrt(n) == isqrtFrom(n, 0)

\* the loop  for i in range(3, root + 1, 2): if n % i == 0: return False
RECURSIVE oddDivisorFrom(_, _, _)
oddDivisorFrom(n, i, root) ==
    IF i > root THEN FALSE
    ELSE IF n % i = 0 THEN TRUE
    ELSE oddDivisorFrom(n, i + 2, root)

is_prime(n) ==
    IF n < 2 THEN FALSE
    ELSE IF n = 2 THEN TRUE
    ELSE IF n % 2 = 0 THEN FALSE
    ELSE ~oddDivisorFrom(n, 3, isqrt(n))

(***************************************************************************)
(* Idle values of the process pool's variables, for the specifications     *)
(* that do not run it.                                                     *)
(***************************************************************************)
IdleProcs ==
    /\ numbers = <<>>
    /\ procs = 0
    /\ jobs = <<>>
    /\ results = <<>>
    /\ mpc = "idle"
    /\ jput = 0
    /\ pstarted = 0
    /\ sput = 0
    /\ wpc = <<>>
    /\ wn = <<>>
    /\ checked = 0
    /\ procs_done = 0
    /\ deqCount = <<>>
    /\ checkCalls = <<>>
    /\ pillsTaken = <<>>
    /\ markersPut = <<>>

(***************************************************************************)
(* getflags/flags2_sequential.py: get_flag and download_one, with the      *)
(* simulated server and disk they run against.  A country code is modelled *)
(* by its alphabetical rank; what the server answers for a code is fixed.  *)
(***************************************************************************)
CCodes == {1, 2, 3, 4, 5}

\* codes the server answers with 404 / with 500 / does not answer at all
NotFoundCodes == {2}

ServerErrorCodes == {3}

UnreachableCodes == {4}

\* codes whose image file cannot be written by save_flag
UnwritableCodes == {5}

UNBOUND == "unbound"

Return(v) == [exc |-> "None", value |-> v]

Raise(e) == [exc |-> e, value |-> UNBOUND]

\* httpx.get followed by resp.raise_for_status()
get_flag(cc) ==
    IF cc \in UnreachableCodes THEN [exc |-> "RequestError", code |-> 0]
    ELSE IF cc \in NotFoundCodes THEN [exc |-> "HTTPStatusError", code |-> 404]
    ELSE IF cc \in ServerErrorCodes THEN [exc |-> "HTTPStatusError", code |-> 500]
    ELSE [exc |-> "None", code |-> 200]

save_flag(cc) == IF cc \in UnwritableCodes THEN Raise("OSError") ELSE Return("None")

download_one(cc) ==
    LET r == get_flag(cc) IN
    IF r.exc = "HTTPStatusError"
       THEN IF r.code = 404 THEN Return("NOT_FOUND") ELSE Raise("HTTPStatusError")
    ELSE IF r.exc # "None" THEN Raise(r.exc)
    ELSE IF save_flag(cc).exc # "None" THEN Raise(save_flag(cc).exc)
    ELSE Return("OK")

DownloadStatus == {"OK", "NOT_FOUND", "ERROR"}

\* Counter(): every key counts 0
EmptyCounter == [s \in DownloadStatus |-> 0]

\* counter[status] += 1
CounterSet(c, s) == [c EXCEPT ![s] = 1]

CounterIncr(c, s) == [c EXCEPT ![s] = @ + 1]

\* sorted(cc_list)
RECURSIVE Insert(_, _)
Insert(x, seq) ==
    IF seq = <<>> THEN <<x>>
    ELSE IF x <= Head(seq) THEN <<x>> \o seq
    ELSE <<Head(seq)>> \o Insert(x, Tail(seq))

RECURSIVE sorted(_)
sorted(seq) == IF seq = <<>> THEN <<>> ELSE Insert(Head(seq), sorted(Tail(seq)))

\* the except clauses of the drain loop: the error_msg an exception leaves
ErrorMsgFor(exc) ==
    IF exc = "HTTPStatusError" THEN "HTTP error"
    ELSE IF exc = "RequestError" THEN "request error"
    ELSE ""

HttpxErrors == {"HTTPStatusError", "RequestError"}

(***************************************************************************)
(* getflags/flags2_threadpool.py                                           *)
(***************************************************************************)
Range(seq) == {seq[i] : i \in 1..Len(seq)}

\* the batches: lists of up to MaxJobs distinct country codes, in any order
CCLists ==
    {l \in UNION {[1..n -> CCodes] : n \in 0..MaxJobs} :
        \A i, j \in 1..Len(l) : l[i] = l[j] => i = j}

Futures == 1..Len(to_do)

Running == {f \in Futures : fstate[f] = "running"}

Queued == {f \in Futures : fstate[f] = "queued"}

\* flags_threadpool_futures.download_many is not called
IdleFutures ==
    /\ count = 0
    /\ cc_arg = <<>>

\* no spinner program runs
IdleSpinner ==
    /\ kind = "none"
    /\ done_event = FALSE
    /\ sup = "idle"
    /\ spinner = "idle"
    /\ char = 1
    /\ shown = FALSE
    /\ result = 0
    /\ late_waits = 0
    /\ ready = <<>>
    /\ timers = {}
    /\ fut_waiter = "none"
    /\ must_cancel = FALSE
    /\ cancels = 0
    /\ frames = 0

\* no pool driven by Executor.map runs
IdleMap ==
    /\ res = <<>>
    /\ retval = 0
    /\ deliveredIdx = <<>>
    /\ finished = <<>>

IdleThreads ==
    /\ cc_list = <<>>
    /\ concur_req = 0
    /\ tpc = "idle"
    /\ to_do = <<>>
    /\ fstate = <<>>
    /\ foutcome = <<>>
    /\ waiting = FALSE
    /\ snap = {}
    /\ arrived = <<>>
    /\ yielded = {}
    /\ status = UNBOUND
    /\ error_msg = UNBOUND
    /\ counter = EmptyCounter
    /\ texc = "None"
    /\ interruptedAt = 0
    /\ drained = {}
    /\ leftAtExit = {}

InitThreads ==
    /\ cc_list \in CCLists
    /\ concur_req \in 1..MaxConcur
    /\ tpc = "submit"
    /\ to_do = <<>>
    /\ fstate = <<>>
    /\ foutcome = <<>>
    /\ waiting = FALSE
    /\ snap = {}
    /\ arrived = <<>>
    /\ yielded = {}
    /\ status = UNBOUND
    /\ error_msg = UNBOUND
    /\ counter = EmptyCounter
    /\ texc = "None"
    /\ interruptedAt = 0
    /\ drained = {}
    /\ leftAtExit = {}
    /\ IdleFutures
    /\ IdleMap
    /\ IdleSpinner

\* for cc in sorted(cc_list): future = executor.submit(...); to_do_map[future] = [cc]
Submit ==
    /\ tpc = "submit"
    /\ Len(to_do) < Len(cc_list)
    /\ to_do' = Append(to_do, sorted(cc_list)[Len(to_do) + 1])
    /\ fstate' = Append(fstate, "queued")
    /\ foutcome' = Append(foutcome, Raise("pending"))
    /\ UNCHANGED <<cc_list, concur_req, tpc, waiting, snap, arrived, yielded,
                   status, error_msg, counter, texc, interruptedAt, drained,
                   leftAtExit>>
    /\ UNCHANGED pvars
    /\ UNCHANGED svars
    /\ UNCHANGED spvars
    /\ UNCHANGED mvars
    /\ UNCHANGED fvars

\* done_iter = as_completed(to_do_map): a generator, not yet running
AsCompleted ==
    /\ tpc = "submit"
    /\ Len(to_do) = Len(cc_list)
    /\ tpc' = "drain"
    /\ UNCHANGED <<cc_list, concur_req, to_do, fstate, foutcome, waiting, snap,
                   arrived, yielded, status, error_msg, counter, texc,
                   interruptedAt, drained, leftAtExit>>
    /\ UNCHANGED pvars
    /\ UNCHANGED svars
    /\ UNCHANGED spvars
    /\ UNCHANGED mvars
    /\ UNCHANGED fvars

\* first next(done_iter): the finished futures are collected, the waiter is
\* installed on the others
InstallWaiter ==
    /\ tpc = "drain"
    /\ ~waiting
    /\ waiting' = TRUE
    /\ snap' = {f \in Futures : fstate[f] = "done"}
    /\ UNCHANGED <<cc_list, concur_req, tpc, to_do, fstate, foutcome, arrived,
                   yielded, status, error_msg, counter, texc, interruptedAt,
                   drained, leftAtExit>>
    /\ UNCHANGED pvars
    /\ UNCHANGED svars
    /\ UNCHANGED spvars
    /\ UNCHANGED mvars
    /\ UNCHANGED fvars

\* the body of the drain loop (lines 53-67) for a future whose job returned
\* or raised an httpx error: the locals status and error_msg it leaves
LoopBody(st, em, o) ==
    IF o.exc = "None"
       THEN \* status = future.result(); else: error_msg = ''
            [status |-> o.value, error_msg |-> ""]
       ELSE \* except httpx.HTTPStatusError / httpx.RequestError
            [status |-> st, error_msg |-> ErrorMsgFor(o.exc)]

\* lines 69-71, which follow the loop:
\*   if error_msg: status = DownloadStatus.ERROR
\*   counter[status] += 1
\* reading an unbound local raises UnboundLocalError
AfterLoop(st, em, c) ==
    IF em = UNBOUND
       THEN [status |-> st, counter |-> c, exc |-> "UnboundLocalError"]
    ELSE LET st2 == IF em # "" THEN "ERROR" ELSE st IN
         IF st2 = UNBOUND
            THEN [status |-> st, counter |-> c, exc |-> "UnboundLocalError"]
            ELSE [status |-> st2, counter |-> CounterIncr(c, st2), exc |-> "None"]

\* the futures next(done_iter) may yield now: the ones found finished at the
\* start in any order, then the others in the order they finished
YieldableInSubmissionOrder ==
    {f \in Futures : /\ f \notin yielded
                     /\ fstate[f] = "done"
                     /\ \A g \in Futures : g < f => g \in yielded}

Yieldable ==
    IF snap # {} THEN snap
    ELSE IF arrived # <<>> THEN {Head(arrived)}
    ELSE {}

\* one iteration of  for future in done_iter  (lines 52-67): the future is
\* yielded and future.result() returns, raises what the job raised, or is
\* interrupted by KeyboardInterrupt
DrainOne(f, intr) ==
    /\ tpc = "drain"
    /\ waiting
    /\ f \in Yieldable
    /\ snap' = snap \ {f}
    /\ arrived' = IF snap # {} THEN arrived ELSE Tail(arrived)
    /\ yielded' = yielded \cup {f}
    /\ IF intr
          THEN \* except KeyboardInterrupt: break
               /\ interruptedAt' = f
               /\ tpc' = "tally"
               /\ UNCHANGED <<status, error_msg, texc, drained>>
          ELSE IF foutcome[f].exc \in {"None"} \cup HttpxErrors
          THEN \* future.result() returned, or an httpx error was caught
               /\ status' = LoopBody(status, error_msg, foutcome[f]).status
               /\ error_msg' = LoopBody(status, error_msg, foutcome[f]).error_msg
               /\ drained' = drained \cup {f}
               /\ UNCHANGED <<tpc, texc, interruptedAt>>
          ELSE \* no except clause matches: the exception leaves the loop
               /\ texc' = foutcome[f].exc
               /\ tpc' = "exit"
               /\ UNCHANGED <<status, error_msg, interruptedAt, drained>>
    /\ leftAtExit' = IF tpc' = "exit" THEN {g \in Futures : fstate[g] # "done"}
                                      ELSE leftAtExit
    /\ UNCHANGED <<cc_list, concur_req, to_do, fstate, foutcome, waiting,
                   counter>>
    /\ UNCHANGED pvars
    /\ UNCHANGED svars
    /\ UNCHANGED spvars
    /\ UNCHANGED mvars
    /\ UNCHANGED fvars

\* KeyboardInterrupt raised while next(done_iter) waits for a future: it is
\* raised by the for statement, outside the try block
InterruptInWait ==
    /\ tpc = "drain"
    /\ waiting
    /\ Yieldable = {}
    /\ yielded # Futures
    /\ texc' = "KeyboardInterrupt"
    /\ tpc' = "exit"
    /\ leftAtExit' = {g \in Futures : fstate[g] # "done"}
    /\ UNCHANGED <<cc_list, concur_req, to_do, fstate, foutcome, waiting, snap,
                   arrived, yielded, status, error_msg, counter,
                   interruptedAt, drained>>
    /\ UNCHANGED pvars
    /\ UNCHANGED svars
    /\ UNCHANGED spvars
    /\ UNCHANGED mvars
    /\ UNCHANGED fvars

\* done_iter is exhausted: the for loop ends
DrainEnd ==
    /\ tpc = "drain"
    /\ waiting
    /\ yielded = Futures
    /\ tpc' = "tally"
    /\ UNCHANGED <<cc_list, concur_req, to_do, fstate, foutcome, waiting, snap,
                   arrived, yielded, status, error_msg, counter, texc,
                   interruptedAt, drained, leftAtExit>>
    /\ UNCHANGED pvars
    /\ UNCHANGED svars
    /\ UNCHANGED spvars
    /\ UNCHANGED mvars
    /\ UNCHANGED fvars

\* the statements after the loop (lines 69-71) are run, once
Tally ==
    /\ tpc = "tally"
    /\ tpc' = "exit"
    /\ leftAtExit' = {g \in Futures : fstate[g] # "done"}
    /\ status' = AfterLoop(status, error_msg, counter).status
    /\ counter' = AfterLoop(status, error_msg, counter).counter
    /\ texc' = AfterLoop(status, error_msg, counter).exc
    /\ UNCHANGED <<cc_list, concur_req, to_do, fstate, foutcome, waiting, snap,
                   arrived, yielded, error_msg, interruptedAt, drained>>
    /\ UNCHANGED pvars
    /\ UNCHANGED svars
    /\ UNCHANGED spvars
    /\ UNCHANGED mvars
    /\ UNCHANGED fvars

\* ThreadPoolExecutor.__exit__: shutdown(wait=True) joins the worker
\* threads, which first run every work item still queued
ShutdownNoWait == TRUE

ShutdownJoined == \A f \in Futures : fstate[f] = "done"

\* the with-block is left; download_many returns counter or re-raises
Exit ==
    /\ tpc = "exit"
    /\ ShutdownJoined
    /\ tpc' = IF texc = "None" THEN "returned" ELSE "raised"
    /\ UNCHANGED <<cc_list, concur_req, to_do, fstate, foutcome, waiting, snap,
                   arrived, yielded, status, error_msg, counter, texc,
                   interruptedAt, drained, leftAtExit>>
    /\ UNCHANGED pvars
    /\ UNCHANGED svars
    /\ UNCHANGED spvars
    /\ UNCHANGED mvars
    /\ UNCHANGED fvars

\* the worker threads that hold a work item: at most max_workers exist
Active == {f \in Futures : fstate[f] \in {"taken", "running"}}

\* whether a worker thread is free to take a work item
ThreadFreeOffByOne == Cardinality(Active) <= concur_req

ThreadFree == Cardinality(Active) < concur_req

\* the work item a worker thread gets from the executor's FIFO work queue
NextWorkItemAny == Queued

NextWorkItem == {f \in Queued : \A g \in Queued : f <= g}

\* a worker thread of the executor gets the oldest queued work item
JobTake(f) ==
    /\ f \in NextWorkItem
    /\ ThreadFree
    /\ fstate' = [fstate EXCEPT ![f] = "taken"]
    /\ UNCHANGED <<cc_list, concur_req, tpc, to_do, foutcome, waiting, snap,
                   arrived, yielded, status, error_msg, counter, texc,
                   interruptedAt, drained, leftAtExit>>
    /\ UNCHANGED pvars
    /\ UNCHANGED svars
    /\ UNCHANGED spvars
    /\ UNCHANGED mvars
    /\ UNCHANGED fvars

\* the worker thread runs its work item: the call of download_one begins
JobStart(f) ==
    /\ f \in Futures
    /\ fstate[f] = "taken"
    /\ fstate' = [fstate EXCEPT ![f] = "running"]
    /\ UNCHANGED <<cc_list, concur_req, tpc, to_do, foutcome, waiting, snap,
                   arrived, yielded, status, error_msg, counter, texc,
                   interruptedAt, drained, leftAtExit>>
    /\ UNCHANGED pvars
    /\ UNCHANGED svars
    /\ UNCHANGED spvars
    /\ UNCHANGED mvars
    /\ UNCHANGED fvars

\* the worker thread finishes download_one(cc, base_url, verbose) and sets
\* the future's result or exception; an installed waiter is notified
JobFinishTallies(f) ==
    /\ f \in Running
    /\ fstate' = [fstate EXCEPT ![f] = "done"]
    /\ foutcome' = [foutcome EXCEPT ![f] = download_one(to_do[f])]
    /\ arrived' = IF waiting THEN Append(arrived, f) ELSE arrived
    /\ counter' = IF download_one(to_do[f]).exc = "None"
                     THEN CounterIncr(counter, download_one(to_do[f]).value)
                     ELSE CounterIncr(counter, "ERROR")
    /\ UNCHANGED <<cc_list, concur_req, tpc, to_do, waiting, snap, yielded,
                   status, error_msg, texc, interruptedAt, drained,
                   leftAtExit>>
    /\ UNCHANGED pvars
    /\ UNCHANGED svars
    /\ UNCHANGED spvars
    /\ UNCHANGED mvars
    /\ UNCHANGED fvars

JobFinish(f) ==
    /\ f \in Running
    /\ fstate' = [fstate EXCEPT ![f] = "done"]
    /\ foutcome' = [foutcome EXCEPT ![f] = download_one(to_do[f])]
    /\ arrived' = IF waiting THEN Append(arrived, f) ELSE arrived
    /\ UNCHANGED <<cc_list, concur_req, tpc, to_do, waiting, snap, yielded,
                   status, error_msg, counter, texc, interruptedAt, drained,
                   leftAtExit>>
    /\ UNCHANGED pvars
    /\ UNCHANGED svars
    /\ UNCHANGED spvars
    /\ UNCHANGED mvars
    /\ UNCHANGED fvars

MainThread ==
    \/ Submit
    \/ AsCompleted
    \/ InstallWaiter
    \/ \E f \in Futures, intr \in BOOLEAN : DrainOne(f, intr)
    \/ InterruptInWait
    \/ DrainEnd
    \/ Tally
    \/ Exit

PoolThreads ==
    \/ \E f \in Futures : JobTake(f)
    \/ \E f \in Futures : JobStart(f)
    \/ \E f \in Futures : JobFinish(f)

(***************************************************************************)
(* getflags/flags2_sequential.py: download_many                            *)
(***************************************************************************)
IdleSeq ==
    /\ cc_iter = <<>>
    /\ cc_pos = 0

InitSeq ==
    /\ cc_list \in CCLists
    /\ tpc = "seq_start"
    /\ status = UNBOUND
    /\ error_msg = UNBOUND
    /\ counter = EmptyCounter
    /\ texc = "None"
    /\ interruptedAt = 0
    /\ drained = {}
    /\ cc_iter = <<>>
    /\ cc_pos = 0
    /\ IdleProcs
    \* the thread pool is not used
    /\ concur_req = 0
    /\ to_do = <<>>
    /\ fstate = <<>>
    /\ foutcome = <<>>
    /\ waiting = FALSE
    /\ snap = {}
    /\ arrived = <<>>
    /\ yielded = {}
    /\ leftAtExit = {}
    /\ IdleFutures
    /\ IdleMap
    /\ IdleSpinner

\* counter = Counter(); cc_iter = sorted(cc_list)
SeqEnter ==
    /\ tpc = "seq_start"
    /\ counter' = EmptyCounter
    /\ cc_iter' = sorted(cc_list)
    /\ tpc' = "seq_loop"
    /\ UNCHANGED <<cc_list, status, error_msg, texc, interruptedAt, drained,
                   cc_pos>>
    /\ UNCHANGED <<pvars, poolvars>>
    /\ UNCHANGED spvars
    /\ UNCHANGED mvars
    /\ UNCHANGED fvars

\* one iteration of  for cc in cc_iter  (lines 77-94): download_one runs in
\* the try block and the outcome is tallied inside the loop
SeqIterate(intr) ==
    /\ tpc = "seq_loop"
    /\ cc_pos < Len(cc_iter)
    /\ cc_pos' = cc_pos + 1
    /\ LET o == download_one(cc_iter[cc_pos + 1]) IN
       IF intr
          THEN \* except KeyboardInterrupt: break
               /\ interruptedAt' = cc_pos + 1
               /\ tpc' = "seq_return"
               /\ UNCHANGED <<status, error_msg, counter, texc, drained>>
          ELSE IF o.exc = "None"
          THEN \* else: error_msg = ''   then  counter[status] += 1
               /\ status' = o.value
               /\ error_msg' = ""
               /\ counter' = CounterIncr(counter, o.value)
               /\ drained' = drained \cup {cc_pos + 1}
               /\ UNCHANGED <<tpc, texc, interruptedAt>>
          ELSE IF o.exc \in HttpxErrors
          THEN \* error_msg = ...  then  status = ERROR; counter[status] += 1
               /\ error_msg' = ErrorMsgFor(o.exc)
               /\ status' = "ERROR"
               /\ counter' = CounterIncr(counter, "ERROR")
               /\ drained' = drained \cup {cc_pos + 1}
               /\ UNCHANGED <<tpc, texc, interruptedAt>>
          ELSE \* no except clause matches: the exception leaves download_many
               /\ texc' = o.exc
               /\ tpc' = "raised"
               /\ UNCHANGED <<status, error_msg, counter, interruptedAt,
                              drained>>
    /\ UNCHANGED <<cc_list, cc_iter>>
    /\ UNCHANGED <<pvars, poolvars>>
    /\ UNCHANGED spvars
    /\ UNCHANGED mvars
    /\ UNCHANGED fvars

\* cc_iter is exhausted: the for loop ends
SeqLoopEnd ==
    /\ tpc = "seq_loop"
    /\ cc_pos = Len(cc_iter)
    /\ tpc' = "seq_return"
    /\ UNCHANGED <<cc_list, status, error_msg, counter, texc, interruptedAt,
                   drained, cc_iter, cc_pos>>
    /\ UNCHANGED <<pvars, poolvars>>
    /\ UNCHANGED spvars
    /\ UNCHANGED mvars
    /\ UNCHANGED fvars

\* return counter
SeqReturn ==
    /\ tpc = "seq_return"
    /\ tpc' = "returned"
    /\ UNCHANGED <<cc_list, status, error_msg, counter, texc, interruptedAt,
                   drained, cc_iter, cc_pos>>
    /\ UNCHANGED <<pvars, poolvars>>
    /\ UNCHANGED spvars
    /\ UNCHANGED mvars
    /\ UNCHANGED fvars

NextSeq ==
    \/ SeqEnter
    \/ \E intr \in BOOLEAN : SeqIterate(intr)
    \/ SeqLoopEnd
    \/ SeqReturn


(***************************************************************************)
(* primes/procs.py                                                         *)
(***************************************************************************)
PrimeResult(n, prime, elapsed) == [n |-> n, prime |-> prime, elapsed |-> elapsed]

check(n, elapsed) == PrimeResult(n, is_prime(n), elapsed)

DoneMarker == PrimeResult(0, FALSE, 0)

\* report: the test  n == 0  for the poison pill
IsDoneMarkerNotPrime(r) == ~r.prime

IsDoneMarker(r) == r.n = 0

\* worker: the truth value of  n := jobs.get()  in the while condition
LoopContinuesNonNegative(n) == n >= 0

LoopContinues(n) == n # 0

\* report: the loop condition  procs_done < procs
ReportLoopCondInclusive(done, total) == done <= total

ReportLoopCondOffByOne(done, total) == done < total - 1

ReportLoopCond(done, total) == done < total

\* SimpleQueue.get: the queue that remains after the head was taken
QueueAfterGetPeek(q) == q

QueueAfterGet(q) == Tail(q)

\* SimpleQueue.put
QueuePutFront(q, x) == <<x>> \o q

QueuePut(q, x) == Append(q, x)

Workers == 1..procs

Batches == UNION {[1..n -> JobVals] : n \in 0..MaxNumbers}

InitProcs ==
    /\ numbers \in Batches
    /\ procs \in 0..MaxProcs
    /\ jobs = <<>>
    /\ results = <<>>
    /\ mpc = "start_jobs"
    /\ jput = 0
    /\ pstarted = 0
    /\ sput = 0
    /\ wpc = [w \in 1..procs |-> "unstarted"]
    /\ wn = [w \in 1..procs |-> [n |-> 0, id |-> 0]]
    /\ checked = 0
    /\ procs_done = 0
    /\ deqCount = [j \in 1..Len(numbers) |-> 0]
    /\ checkCalls = [j \in 1..Len(numbers) |-> 0]
    /\ pillsTaken = [w \in 1..procs |-> 0]
    /\ markersPut = [w \in 1..procs |-> 0]
    /\ IdleThreads
    /\ IdleSeq
    /\ IdleFutures
    /\ IdleMap
    /\ IdleSpinner

\* start_jobs, first loop: jobs.put(n) for the next n of NUMBERS
PutJob ==
    /\ mpc = "start_jobs"
    /\ jput < Len(numbers)
    /\ jobs' = QueuePut(jobs, [n |-> numbers[jput + 1], id |-> jput + 1])
    /\ jput' = jput + 1
    /\ UNCHANGED <<numbers, procs, results, mpc, pstarted, sput, wpc, wn,
                   checked, procs_done, deqCount, checkCalls, pillsTaken,
                   markersPut>>
    /\ UNCHANGED tvars
    /\ UNCHANGED svars
    /\ UNCHANGED spvars
    /\ UNCHANGED mvars
    /\ UNCHANGED fvars

\* start_jobs, second loop: proc = Process(target=worker, ...); proc.start()
StartProc ==
    /\ mpc = "start_jobs"
    /\ jput = Len(numbers)
    /\ pstarted < procs
    /\ pstarted = sput
    /\ wpc' = [wpc EXCEPT ![pstarted + 1] = "get"]
    /\ pstarted' = pstarted + 1
    /\ UNCHANGED <<numbers, procs, jobs, results, mpc, jput, sput, wn,
                   checked, procs_done, deqCount, checkCalls, pillsTaken,
                   markersPut>>
    /\ UNCHANGED tvars
    /\ UNCHANGED svars
    /\ UNCHANGED spvars
    /\ UNCHANGED mvars
    /\ UNCHANGED fvars

\* start_jobs, second loop: jobs.put(0)
PutSentinelTwice ==
    /\ mpc = "start_jobs"
    /\ pstarted = sput + 1
    /\ jobs' = QueuePut(QueuePut(jobs, [n |-> 0, id |-> 0]),
                        [n |-> 0, id |-> 0])
    /\ sput' = sput + 1
    /\ UNCHANGED <<numbers, procs, results, mpc, jput, pstarted, wpc, wn,
                   checked, procs_done, deqCount, checkCalls, pillsTaken,
                   markersPut>>
    /\ UNCHANGED tvars
    /\ UNCHANGED svars
    /\ UNCHANGED spvars
    /\ UNCHANGED mvars
    /\ UNCHANGED fvars

PutSentinel ==
    /\ mpc = "start_jobs"
    /\ pstarted = sput + 1
    /\ jobs' = QueuePut(jobs, [n |-> 0, id |-> 0])
    /\ sput' = sput + 1
    /\ UNCHANGED <<numbers, procs, results, mpc, jput, pstarted, wpc, wn,
                   checked, procs_done, deqCount, checkCalls, pillsTaken,
                   markersPut>>
    /\ UNCHANGED tvars
    /\ UNCHANGED svars
    /\ UNCHANGED spvars
    /\ UNCHANGED mvars
    /\ UNCHANGED fvars

\* main: start_jobs has returned, report(procs, results) is entered
EnterReport ==
    /\ mpc = "start_jobs"
    /\ jput = Len(numbers)
    /\ pstarted >= procs
    /\ sput = pstarted
    /\ mpc' = "report"
    /\ checked' = 0
    /\ procs_done' = 0
    /\ UNCHANGED <<numbers, procs, jobs, results, jput, pstarted, sput, wpc,
                   wn, deqCount, checkCalls, pillsTaken, markersPut>>
    /\ UNCHANGED tvars
    /\ UNCHANGED svars
    /\ UNCHANGED spvars
    /\ UNCHANGED mvars
    /\ UNCHANGED fvars

\* report: one iteration of  while procs_done < procs
ReportGet ==
    /\ mpc = "report"
    /\ ReportLoopCond(procs_done, procs)
    /\ results # <<>>
    /\ results' = QueueAfterGet(results)
    /\ IF IsDoneMarker(Head(results))
          THEN /\ procs_done' = procs_done + 1
               /\ checked' = checked
          ELSE /\ checked' = checked + 1
               /\ procs_done' = procs_done
    /\ UNCHANGED <<numbers, procs, jobs, mpc, jput, pstarted, sput, wpc, wn,
                   deqCount, checkCalls, pillsTaken, markersPut>>
    /\ UNCHANGED tvars
    /\ UNCHANGED svars
    /\ UNCHANGED spvars
    /\ UNCHANGED mvars
    /\ UNCHANGED fvars

\* report: the loop condition fails, return checked
ReportReturn ==
    /\ mpc = "report"
    /\ ~ReportLoopCond(procs_done, procs)
    /\ mpc' = "returned"
    /\ UNCHANGED <<numbers, procs, jobs, results, jput, pstarted, sput, wpc,
                   wn, checked, procs_done, deqCount, checkCalls, pillsTaken,
                   markersPut>>
    /\ UNCHANGED tvars
    /\ UNCHANGED svars
    /\ UNCHANGED spvars
    /\ UNCHANGED mvars
    /\ UNCHANGED fvars

\* worker:  n := jobs.get()  and the test of the while condition
WorkerGet(w) ==
    /\ w \in Workers
    /\ wpc[w] = "get"
    /\ jobs # <<>>
    /\ jobs' = QueueAfterGet(jobs)
    /\ wn' = [wn EXCEPT ![w] = Head(jobs)]
    /\ wpc' = [wpc EXCEPT ![w] = IF LoopContinues(Head(jobs).n) THEN "put"
                                                            ELSE "mark"]
    /\ deqCount' = IF Head(jobs).id # 0
                      THEN [deqCount EXCEPT ![Head(jobs).id] = @ + 1]
                      ELSE deqCount
    /\ pillsTaken' = IF Head(jobs).n = 0
                        THEN [pillsTaken EXCEPT ![w] = @ + 1]
                        ELSE pillsTaken
    /\ UNCHANGED <<numbers, procs, results, mpc, jput, pstarted, sput,
                   checked, procs_done, checkCalls, markersPut>>
    /\ UNCHANGED tvars
    /\ UNCHANGED svars
    /\ UNCHANGED spvars
    /\ UNCHANGED mvars
    /\ UNCHANGED fvars

\* worker:  results.put(check(n))
WorkerCheckPut(w) ==
    /\ w \in Workers
    /\ wpc[w] = "put"
    /\ \E e \in ElapsedVals : results' = QueuePut(results, check(wn[w].n, e))
    /\ checkCalls' = [checkCalls EXCEPT ![wn[w].id] = @ + 1]
    /\ wpc' = [wpc EXCEPT ![w] = "get"]
    /\ UNCHANGED <<numbers, procs, jobs, mpc, jput, pstarted, sput, wn,
                   checked, procs_done, deqCount, pillsTaken, markersPut>>
    /\ UNCHANGED tvars
    /\ UNCHANGED svars
    /\ UNCHANGED spvars
    /\ UNCHANGED mvars
    /\ UNCHANGED fvars

\* worker:  results.put(PrimeResult(0, False, 0.0))  and the end of the process
WorkerDone(w) ==
    /\ w \in Workers
    /\ wpc[w] = "mark"
    /\ results' = QueuePut(results, DoneMarker)
    /\ markersPut' = [markersPut EXCEPT ![w] = @ + 1]
    /\ wpc' = [wpc EXCEPT ![w] = "exited"]
    /\ UNCHANGED <<numbers, procs, jobs, mpc, jput, pstarted, sput, wn,
                   checked, procs_done, deqCount, checkCalls, pillsTaken>>
    /\ UNCHANGED tvars
    /\ UNCHANGED svars
    /\ UNCHANGED spvars
    /\ UNCHANGED mvars
    /\ UNCHANGED fvars

MainProcs ==
    \/ PutJob
    \/ StartProc
    \/ PutSentinel
    \/ EnterReport
    \/ ReportGet
    \/ ReportReturn

WorkerStep(w) ==
    \/ WorkerGet(w)
    \/ WorkerCheckPut(w)
    \/ WorkerDone(w)

NextProcs ==
    \/ MainProcs
    \/ \E w \in Workers : WorkerGet(w)
    \/ \E w \in Workers : WorkerCheckPut(w)
    \/ \E w \in Workers : WorkerDone(w)

(***************************************************************************)
(* getflags/flags_threadpool_futures.py: download_many, with download_one   *)
(* of getflags/flags_threadpool.py and get_flag, save_flag of flags.py      *)
(***************************************************************************)
\* ThreadPoolExecutor(max_workers=3)
max_workers == 3

\* the stop index of the slice  cc_list[:5]
SliceStop == 5

\* the first seven country codes of flags.POP20_CC (CN IN US ID BR PK NG),
\* each written as its alphabetical rank among them
POP20_CC == <<2, 4, 7, 3, 1, 6, 5>>

\* the batches: main passes POP20_CC; the model runs its prefixes
FutLists == {SubSeq(POP20_CC, 1, n) : n \in 0..MaxFutLen}

\* cc_list[:stop]
SliceNone(l, stop) == l

Slice(l, stop) == SubSeq(l, 1, IF Len(l) < stop THEN Len(l) ELSE stop)

\* flags.get_flag: httpx.get and raise_for_status return the image or raise
flags_get_flag == {"None", "HTTPStatusError", "RequestError"}

\* flags.save_flag: write_bytes succeeds or raises OSError
flags_save_flag == {"None", "OSError"}

\* a future that holds no country code: pending, or its job raised e
NoResult(e) == [exc |-> e, value |-> 0]

\* flags_threadpool.download_one: what a call may return (cc) or raise
flags_threadpool_download_one(cc) ==
    {IF g # "None" THEN NoResult(g)
     ELSE IF w # "None" THEN NoResult(w)
     ELSE Return(cc) : g \in flags_get_flag, w \in flags_save_flag}

InitFutures ==
    /\ cc_list \in FutLists
    /\ cc_arg = cc_list
    /\ count = 0
    /\ tpc = "fut_start"
    /\ concur_req = 0
    /\ to_do = <<>>
    /\ fstate = <<>>
    /\ foutcome = <<>>
    /\ waiting = FALSE
    /\ snap = {}
    /\ arrived = <<>>
    /\ yielded = {}
    /\ status = UNBOUND
    /\ error_msg = UNBOUND
    /\ counter = EmptyCounter
    /\ texc = "None"
    /\ interruptedAt = 0
    /\ drained = {}
    /\ leftAtExit = {}
    /\ IdleSeq
    /\ IdleProcs
    /\ IdleMap
    /\ IdleSpinner

\* cc_list = cc_list[:5]; the executor is created and the with-block entered
FutEnter ==
    /\ tpc = "fut_start"
    /\ cc_list' = Slice(cc_list, SliceStop)
    /\ concur_req' = max_workers
    /\ tpc' = "fut_submit"
    /\ UNCHANGED <<to_do, fstate, foutcome, waiting, snap, arrived, yielded,
                   status, error_msg, counter, texc, interruptedAt, drained,
                   leftAtExit>>
    /\ UNCHANGED pvars
    /\ UNCHANGED svars
    /\ UNCHANGED spvars
    /\ UNCHANGED mvars
    /\ UNCHANGED fvars

\* for cc in sorted(cc_list): future = executor.submit(download_one, cc);
\* to_do.append(future)
FutSubmit ==
    /\ tpc = "fut_submit"
    /\ Len(to_do) < Len(cc_list)
    /\ to_do' = Append(to_do, sorted(cc_list)[Len(to_do) + 1])
    /\ fstate' = Append(fstate, "queued")
    /\ foutcome' = Append(foutcome, NoResult("pending"))
    /\ UNCHANGED <<cc_list, concur_req, tpc, waiting, snap, arrived, yielded,
                   status, error_msg, counter, texc, interruptedAt, drained,
                   leftAtExit>>
    /\ UNCHANGED pvars
    /\ UNCHANGED svars
    /\ UNCHANGED spvars
    /\ UNCHANGED mvars
    /\ UNCHANGED fvars

\* the with-block is left after the last submit: ThreadPoolExecutor.__exit__
\* joins the worker threads; then as_completed(to_do) is called
FutWithExit ==
    /\ tpc = "fut_submit"
    /\ Len(to_do) = Len(cc_list)
    /\ ShutdownJoined
    /\ tpc' = "fut_drain"
    /\ UNCHANGED <<cc_list, concur_req, to_do, fstate, foutcome, waiting,
                   snap, arrived, yielded, status, error_msg, counter, texc,
                   interruptedAt, drained, leftAtExit>>
    /\ UNCHANGED pvars
    /\ UNCHANGED svars
    /\ UNCHANGED spvars
    /\ UNCHANGED mvars
    /\ UNCHANGED fvars

\* first next() of as_completed: the finished futures are collected, the
\* waiter is installed on the others
FutInstallWaiter ==
    /\ tpc = "fut_drain"
    /\ ~waiting
    /\ waiting' = TRUE
    /\ snap' = {f \in Futures : fstate[f] = "done"}
    /\ UNCHANGED <<cc_list, concur_req, tpc, to_do, fstate, foutcome,
                   arrived, yielded, status, error_msg, counter, texc,
                   interruptedAt, drained, leftAtExit>>
    /\ UNCHANGED pvars
    /\ UNCHANGED svars
    /\ UNCHANGED spvars
    /\ UNCHANGED mvars
    /\ UNCHANGED fvars

\* one iteration of  for count, future in enumerate(as_completed(to_do), 1):
\* count is bound, then future.result() returns or raises what the job raised
FutDrainOne(f) ==
    /\ tpc = "fut_drain"
    /\ waiting
    /\ f \in Yieldable
    /\ snap' = snap \ {f}
    /\ arrived' = IF snap # {} THEN arrived ELSE Tail(arrived)
    /\ yielded' = yielded \cup {f}
    /\ count' = count + 1
    /\ IF foutcome[f].exc = "None"
          THEN UNCHANGED <<tpc, texc>>
          ELSE /\ texc' = foutcome[f].exc
               /\ tpc' = "raised"
    /\ UNCHANGED <<cc_list, concur_req, to_do, fstate, foutcome, waiting,
                   status, error_msg, counter, interruptedAt, drained,
                   leftAtExit>>
    /\ UNCHANGED pvars
    /\ UNCHANGED svars
    /\ UNCHANGED spvars
    /\ UNCHANGED mvars
    /\ UNCHANGED cc_arg

\* the iterator is exhausted:  return count ; count is unbound (0 here)
\* when the loop body never ran
FutReturn ==
    /\ tpc = "fut_drain"
    /\ waiting
    /\ yielded = Futures
    /\ IF count = 0
          THEN /\ texc' = "UnboundLocalError"
               /\ tpc' = "raised"
          ELSE /\ texc' = texc
               /\ tpc' = "returned"
    /\ UNCHANGED <<cc_list, concur_req, to_do, fstate, foutcome, waiting,
                   snap, arrived, yielded, status, error_msg, counter,
                   interruptedAt, drained, leftAtExit>>
    /\ UNCHANGED pvars
    /\ UNCHANGED svars
    /\ UNCHANGED spvars
    /\ UNCHANGED mvars
    /\ UNCHANGED fvars

\* a worker thread finishes download_one(cc) and sets the future's result
\* or exception
FutJobFinish(f) ==
    /\ tpc \in {"fut_submit", "fut_drain"}
    /\ f \in Running
    /\ fstate' = [fstate EXCEPT ![f] = "done"]
    /\ \E o \in flags_threadpool_download_one(to_do[f]) :
          foutcome' = [foutcome EXCEPT ![f] = o]
    /\ arrived' = IF waiting THEN Append(arrived, f) ELSE arrived
    /\ UNCHANGED <<cc_list, concur_req, tpc, to_do, waiting, snap, yielded,
                   status, error_msg, counter, texc, interruptedAt, drained,
                   leftAtExit>>
    /\ UNCHANGED pvars
    /\ UNCHANGED svars
    /\ UNCHANGED spvars
    /\ UNCHANGED mvars
    /\ UNCHANGED fvars

NextFutures ==
    \/ FutEnter
    \/ FutSubmit
    \/ FutWithExit
    \/ FutInstallWaiter
    \/ \E f \in Futures : FutDrainOne(f)
    \/ FutReturn
    \/ \E f \in Futures : JobTake(f)
    \/ \E f \in Futures : JobStart(f)
    \/ \E f \in Futures : FutJobFinish(f)

(***************************************************************************)
(* The pools driven by Executor.map: getflags/flags_threadpool.py           *)
(* (download_many) and primes/proc_pool.py (main)                           *)
(***************************************************************************)
\* ThreadPoolExecutor(): max_workers is min(32, os.cpu_count() + 4), which
\* is 5 at least
default_max_workers == 5

\* the batches of flags_threadpool.download_many: prefixes of POP20_CC
MapLists == {SubSeq(POP20_CC, 1, n) : n \in 0..MaxJobs}

\* sorted(NUMBERS, reverse=True)
sorted_reverse(seq) ==
    [i \in 1..Len(seq) |-> sorted(seq)[Len(seq) + 1 - i]]

\* a future of proc_pool that holds no PrimeResult yet
PendingCheck == [exc |-> "pending", value |-> PrimeResult(0, FALSE, 0)]

\* the future whose result the iterator of executor.map delivers next: the
\* futures are taken in the order of submission, each one when it is done
NextResultAsCompleted ==
    {f \in Futures : fstate[f] = "done" /\ f \notin Range(deliveredIdx)}

NextResult ==
    {f \in Futures : f = Len(deliveredIdx) + 1 /\ fstate[f] = "done"}

\* ---- flags_threadpool.download_many ----
InitMapThreads ==
    /\ cc_list \in MapLists
    /\ concur_req = default_max_workers
    /\ tpc = "map_submit"
    /\ to_do = <<>>
    /\ fstate = <<>>
    /\ foutcome = <<>>
    /\ waiting = FALSE
    /\ snap = {}
    /\ arrived = <<>>
    /\ yielded = {}
    /\ status = UNBOUND
    /\ error_msg = UNBOUND
    /\ counter = EmptyCounter
    /\ texc = "None"
    /\ interruptedAt = 0
    /\ drained = {}
    /\ leftAtExit = {}
    /\ IdleSeq
    /\ IdleProcs
    /\ IdleFutures
    /\ IdleMap
    /\ IdleSpinner

\* executor.map(download_one, sorted(cc_list)): every call is submitted
MapSubmit ==
    /\ tpc = "map_submit"
    /\ Len(to_do) < Len(cc_list)
    /\ to_do' = Append(to_do, sorted(cc_list)[Len(to_do) + 1])
    /\ fstate' = Append(fstate, "queued")
    /\ foutcome' = Append(foutcome, NoResult("pending"))
    /\ UNCHANGED <<cc_list, concur_req, tpc, waiting, snap, arrived, yielded,
                   status, error_msg, counter, texc, interruptedAt, drained,
                   leftAtExit>>
    /\ UNCHANGED pvars
    /\ UNCHANGED svars
    /\ UNCHANGED spvars
    /\ UNCHANGED mvars
    /\ UNCHANGED fvars

\* the with-block is left: ThreadPoolExecutor.__exit__ joins the worker
\* threads; then list(res) starts to iterate
MapWithExit ==
    /\ tpc = "map_submit"
    /\ Len(to_do) = Len(cc_list)
    /\ ShutdownJoined
    /\ tpc' = "map_list"
    /\ UNCHANGED <<cc_list, concur_req, to_do, fstate, foutcome, waiting,
                   snap, arrived, yielded, status, error_msg, counter, texc,
                   interruptedAt, drained, leftAtExit>>
    /\ UNCHANGED pvars
    /\ UNCHANGED svars
    /\ UNCHANGED spvars
    /\ UNCHANGED mvars
    /\ UNCHANGED fvars

\* list(res): next() of the iterator returns the result of the next future
\* or raises what its job raised
MapListNext(f) ==
    /\ tpc = "map_list"
    /\ f \in NextResult
    /\ IF foutcome[f].exc = "None"
          THEN /\ res' = Append(res, foutcome[f].value)
               /\ deliveredIdx' = Append(deliveredIdx, f)
               /\ UNCHANGED <<tpc, texc>>
          ELSE /\ texc' = foutcome[f].exc
               /\ tpc' = "raised"
               /\ UNCHANGED <<res, deliveredIdx>>
    /\ UNCHANGED <<cc_list, concur_req, to_do, fstate, foutcome, waiting,
                   snap, arrived, yielded, status, error_msg, counter,
                   interruptedAt, drained, leftAtExit>>
    /\ UNCHANGED pvars
    /\ UNCHANGED svars
    /\ UNCHANGED spvars
    /\ UNCHANGED <<retval, finished>>
    /\ UNCHANGED fvars

\* the iterator is exhausted:  return len(list(res))
MapReturn ==
    /\ tpc = "map_list"
    /\ Len(deliveredIdx) = Len(to_do)
    /\ retval' = Len(res)
    /\ tpc' = "returned"
    /\ UNCHANGED <<cc_list, concur_req, to_do, fstate, foutcome, waiting,
                   snap, arrived, yielded, status, error_msg, counter, texc,
                   interruptedAt, drained, leftAtExit>>
    /\ UNCHANGED pvars
    /\ UNCHANGED svars
    /\ UNCHANGED spvars
    /\ UNCHANGED <<res, deliveredIdx, finished>>
    /\ UNCHANGED fvars

\* a worker thread finishes download_one(cc) and sets the future's result
\* or exception
MapJobFinish(f) ==
    /\ tpc \in {"map_submit", "map_list"}
    /\ f \in Running
    /\ fstate' = [fstate EXCEPT ![f] = "done"]
    /\ \E o \in flags_threadpool_download_one(to_do[f]) :
          foutcome' = [foutcome EXCEPT ![f] = o]
    /\ finished' = Append(finished, f)
    /\ UNCHANGED <<cc_list, concur_req, tpc, to_do, waiting, snap, arrived,
                   yielded, status, error_msg, counter, texc, interruptedAt,
                   drained, leftAtExit>>
    /\ UNCHANGED pvars
    /\ UNCHANGED svars
    /\ UNCHANGED spvars
    /\ UNCHANGED <<res, retval, deliveredIdx>>
    /\ UNCHANGED fvars

NextMapThreads ==
    \/ MapSubmit
    \/ MapWithExit
    \/ \E f \in Futures : MapListNext(f)
    \/ MapReturn
    \/ \E f \in Futures : MapJobFinish(f)

\* ---- proc_pool.main ----
InitProcPool ==
    /\ numbers \in Batches
    /\ concur_req \in 1..MaxProcs
    /\ tpc = "pool_map"
    /\ cc_list = <<>>
    /\ to_do = <<>>
    /\ fstate = <<>>
    /\ foutcome = <<>>
    /\ waiting = FALSE
    /\ snap = {}
    /\ arrived = <<>>
    /\ yielded = {}
    /\ status = UNBOUND
    /\ error_msg = UNBOUND
    /\ counter = EmptyCounter
    /\ texc = "None"
    /\ interruptedAt = 0
    /\ drained = {}
    /\ leftAtExit = {}
    /\ procs = 0
    /\ jobs = <<>>
    /\ results = <<>>
    /\ mpc = "idle"
    /\ jput = 0
    /\ pstarted = 0
    /\ sput = 0
    /\ wpc = <<>>
    /\ wn = <<>>
    /\ checked = 0
    /\ procs_done = 0
    /\ deqCount = <<>>
    /\ checkCalls = <<>>
    /\ pillsTaken = <<>>
    /\ markersPut = <<>>
    /\ IdleSeq
    /\ IdleFutures
    /\ IdleMap
    /\ IdleSpinner

\* executor.map(check, numbers) with numbers = sorted(NUMBERS, reverse=True):
\* every call is submitted
PoolSubmit ==
    /\ tpc = "pool_map"
    /\ Len(to_do) < Len(numbers)
    /\ to_do' = Append(to_do, sorted_reverse(numbers)[Len(to_do) + 1])
    /\ fstate' = Append(fstate, "queued")
    /\ foutcome' = Append(foutcome, PendingCheck)
    /\ UNCHANGED <<cc_list, concur_req, tpc, waiting, snap, arrived, yielded,
                   status, error_msg, counter, texc, interruptedAt, drained,
                   leftAtExit>>
    /\ UNCHANGED pvars
    /\ UNCHANGED svars
    /\ UNCHANGED spvars
    /\ UNCHANGED mvars
    /\ UNCHANGED fvars

\* one iteration of  for n, prime, elapsed in executor.map(check, numbers):
\* next() waits for the next future in submission order
PoolLoopNext(f) ==
    /\ tpc = "pool_map"
    /\ Len(to_do) = Len(numbers)
    /\ f \in NextResult
    /\ res' = Append(res, foutcome[f].value)
    /\ deliveredIdx' = Append(deliveredIdx, f)
    /\ UNCHANGED <<cc_list, concur_req, tpc, to_do, fstate, foutcome,
                   waiting, snap, arrived, yielded, status, error_msg,
                   counter, texc, interruptedAt, drained, leftAtExit>>
    /\ UNCHANGED pvars
    /\ UNCHANGED svars
    /\ UNCHANGED spvars
    /\ UNCHANGED <<retval, finished>>
    /\ UNCHANGED fvars

\* the iterator is exhausted; the with-block is left and main returns
PoolWithExit ==
    /\ tpc = "pool_map"
    /\ Len(to_do) = Len(numbers)
    /\ Len(deliveredIdx) = Len(to_do)
    /\ ShutdownJoined
    /\ tpc' = "returned"
    /\ UNCHANGED <<cc_list, concur_req, to_do, fstate, foutcome, waiting,
                   snap, arrived, yielded, status, error_msg, counter, texc,
                   interruptedAt, drained, leftAtExit>>
    /\ UNCHANGED pvars
    /\ UNCHANGED svars
    /\ UNCHANGED spvars
    /\ UNCHANGED mvars
    /\ UNCHANGED fvars

\* a worker process finishes check(n); the future gets its PrimeResult
PoolJobFinish(f) ==
    /\ tpc = "pool_map"
    /\ f \in Running
    /\ fstate' = [fstate EXCEPT ![f] = "done"]
    /\ \E e \in ElapsedVals :
          foutcome' = [foutcome EXCEPT ![f] = Return(check(to_do[f], e))]
    /\ finished' = Append(finished, f)
    /\ UNCHANGED <<cc_list, concur_req, tpc, to_do, waiting, snap, arrived,
                   yielded, status, error_msg, counter, texc, interruptedAt,
                   drained, leftAtExit>>
    /\ UNCHANGED pvars
    /\ UNCHANGED svars
    /\ UNCHANGED spvars
    /\ UNCHANGED <<res, retval, deliveredIdx>>
    /\ UNCHANGED fvars

NextProcPool ==
    \/ PoolSubmit
    \/ \E f \in Futures : PoolLoopNext(f)
    \/ PoolWithExit
    \/ \E f \in Futures : PoolJobFinish(f)

\* either pool driven by Executor.map, with the worker threads or processes
\* of its executor
InitMap == InitMapThreads \/ InitProcPool

NextMap ==
    \/ NextMapThreads
    \/ NextProcPool
    \/ \E f \in Futures : JobTake(f)
    \/ \E f \in Futures : JobStart(f)

(***************************************************************************)
(* spinner_thread.py and spinner_proc.py: supervisor, spin and slow.  The   *)
(* two programs have the same statements; spin runs in a Thread with a      *)
(* threading.Event, or in a Process with a multiprocessing.Event.           *)
(***************************************************************************)
\* what slow() returns
SlowResult == 42

\* print(status, end='', flush=True): one more frame is on the terminal
CountFrame(n) == IF n < MaxFrames THEN n + 1 ELSE n

\* the characters of itertools.cycle('\\|/-'), by position
CycleLen == 4

NextChar(c) == IF c = CycleLen THEN 1 ELSE c + 1

\* Event.wait reads the flag of the event
EventIsSetNever(flag) == FALSE

EventIsSet(flag) == flag

\* what done.wait(0.1) may return to a caller that had to block: False when
\* the timeout elapses with the flag unset, True when the flag was set.
\* threading.Event.wait returns what Condition.wait returns, which is False
\* when the timeout elapsed just before set() notified; multiprocessing's
\* Event.wait tests the flag again after the wait.
BlockedWaitResults(k, flag) ==
    IF ~EventIsSet(flag) THEN {FALSE}
    ELSE IF k = "thread" THEN {TRUE, FALSE}
    ELSE {TRUE}

\* supervisor is entered: done = Event(); spinner = Thread(...) / Process(...)
InitSpinner ==
    /\ kind \in {"thread", "proc"}
    /\ done_event = FALSE
    /\ sup = "start"
    /\ spinner = "created"
    /\ char = 1
    /\ shown = FALSE
    /\ result = 0
    /\ late_waits = 0
    /\ ready = <<>>
    /\ timers = {}
    /\ fut_waiter = "none"
    /\ must_cancel = FALSE
    /\ cancels = 0
    /\ frames = 0
    /\ IdleProcs
    /\ IdleThreads
    /\ IdleSeq
    /\ IdleFutures
    /\ IdleMap

\* spinner.start()
SpinnerStart ==
    /\ sup = "start"
    /\ sup' = "slow"
    /\ spinner' = "print"
    /\ UNCHANGED <<kind, done_event, char, shown, result, late_waits, ready,
                   timers, fut_waiter, must_cancel, cancels,
                   frames>>
    /\ UNCHANGED <<pvars, tvars, svars, fvars, mvars>>

\* result = slow(): time.sleep(3) has elapsed and slow returns 42
SlowReturns ==
    /\ sup = "slow"
    /\ result' = SlowResult
    /\ sup' = "set"
    /\ UNCHANGED <<kind, done_event, spinner, char, shown, late_waits, ready,
                   timers, fut_waiter, must_cancel, cancels,
                   frames>>
    /\ UNCHANGED <<pvars, tvars, svars, fvars, mvars>>

\* done.set()
DoneSet ==
    /\ sup = "set"
    /\ done_event' = TRUE
    /\ sup' = "join"
    /\ UNCHANGED <<kind, spinner, char, shown, result, late_waits, ready,
                   timers, fut_waiter, must_cancel, cancels,
                   frames>>
    /\ UNCHANGED <<pvars, tvars, svars, fvars, mvars>>

\* spinner.join() returns when spin has ended; return result
JoinReturn ==
    /\ sup = "join"
    /\ spinner = "terminated"
    /\ sup' = "returned"
    /\ UNCHANGED <<kind, done_event, spinner, char, shown, result,
                   late_waits, ready, timers, fut_waiter, must_cancel,
                   cancels,
                   frames>>
    /\ UNCHANGED <<pvars, tvars, svars, fvars, mvars>>

\* spin: status = f'\r{char} {msg}'; print(status, end='', flush=True)
SpinPrint ==
    /\ spinner = "print"
    /\ shown' = TRUE
    /\ frames' = CountFrame(frames)
    /\ spinner' = "wait"
    /\ UNCHANGED <<kind, done_event, sup, char, result, late_waits, ready,
                   timers, fut_waiter, must_cancel, cancels>>
    /\ UNCHANGED <<pvars, tvars, svars, fvars, mvars>>

\* spin: done.wait(0.1) is called: with the flag set it returns True at once
\* (break, spin ends), otherwise the caller blocks
SpinWaitBegin ==
    /\ spinner = "wait"
    /\ spinner' = IF EventIsSet(done_event) THEN "terminated" ELSE "blocked"
    /\ late_waits' = IF done_event /\ late_waits < 2 THEN late_waits + 1
                                                     ELSE late_waits
    /\ UNCHANGED <<kind, done_event, sup, char, shown, result, ready, timers,
                   fut_waiter, must_cancel, cancels,
                   frames>>
    /\ UNCHANGED <<pvars, tvars, svars, fvars, mvars>>

\* spin: the blocked done.wait(0.1) returns: True (break, spin ends) or
\* False (the loop goes on)
SpinWaitEnd ==
    /\ spinner = "blocked"
    /\ \E r \in BlockedWaitResults(kind, done_event) :
          spinner' = IF r THEN "terminated" ELSE "clear"
    /\ UNCHANGED <<kind, done_event, sup, char, shown, result, late_waits,
                   ready, timers, fut_waiter, must_cancel, cancels,
                   frames>>
    /\ UNCHANGED <<pvars, tvars, svars, fvars, mvars>>

\* spin: print(f'\r{blanks}\r', end=''); the for loop takes the next char
SpinClear ==
    /\ spinner = "clear"
    /\ shown' = FALSE
    /\ char' = NextChar(char)
    /\ spinner' = "print"
    /\ UNCHANGED <<kind, done_event, sup, result, late_waits, ready, timers,
                   fut_waiter, must_cancel, cancels,
                   frames>>
    /\ UNCHANGED <<pvars, tvars, svars, fvars, mvars>>

SupervisorStep ==
    \/ SpinnerStart
    \/ SlowReturns
    \/ DoneSet
    \/ JoinReturn

SpinStep ==
    \/ SpinPrint
    \/ SpinWaitBegin
    \/ SpinWaitEnd
    \/ SpinClear

NextSpinner == SupervisorStep \/ SpinStep

(***************************************************************************)
(* spinner_async.py: supervisor, spin and slow on the asyncio event loop    *)
(* that asyncio.run(supervisor()) drives.  One callback of the loop runs at *)
(* a time: a task runs from one await to the next.                          *)
(***************************************************************************)
\* Task.cancel() on the spin task, and what the task finds when it is
\* resumed: a CancelledError is thrown into spin at its await when the
\* future it awaits was cancelled or _must_cancel is set
CancelDeliveredNever(fw, mc) == FALSE

CancelDelivered(fw, mc) == mc \/ fw = "cancelled"

\* asyncio.run(supervisor()): the task of supervisor is ready to run
InitAsync ==
    /\ kind = "async"
    /\ done_event = FALSE
    /\ sup = "created"
    /\ spinner = "none"
    /\ char = 1
    /\ shown = FALSE
    /\ result = 0
    /\ late_waits = 0
    /\ ready = <<"sup">>
    /\ timers = {}
    /\ fut_waiter = "none"
    /\ must_cancel = FALSE
    /\ cancels = 0
    /\ frames = 0
    /\ IdleProcs
    /\ IdleThreads
    /\ IdleSeq
    /\ IdleFutures
    /\ IdleMap

\* the timer of an asyncio.sleep fires: the sleep's future gets its result
\* and the task that awaits it is made ready
TimerFire(t) ==
    /\ kind = "async"
    /\ t \in timers
    /\ timers' = timers \ {t}
    /\ ready' = Append(ready, IF t = "slow" THEN "sup" ELSE "spin")
    /\ fut_waiter' = IF t = "spin" THEN "done" ELSE fut_waiter
    /\ UNCHANGED <<kind, done_event, sup, spinner, char, shown, result,
                   late_waits, must_cancel, cancels,
                   frames>>
    /\ UNCHANGED <<pvars, tvars, svars, fvars, mvars>>

\* supervisor up to its await: spinner = asyncio.create_task(spin(...));
\* result = await slow(), which suspends in asyncio.sleep(3)
SupStart ==
    /\ kind = "async"
    /\ ready # <<>>
    /\ Head(ready) = "sup"
    /\ sup = "created"
    /\ spinner' = "created"
    /\ ready' = Append(Tail(ready), "spin")
    /\ timers' = timers \cup {"slow"}
    /\ sup' = "await_slow"
    /\ UNCHANGED <<kind, done_event, char, shown, result, late_waits,
                   fut_waiter, must_cancel, cancels,
                   frames>>
    /\ UNCHANGED <<pvars, tvars, svars, fvars, mvars>>

\* supervisor is resumed: slow returns 42; spinner.cancel(); return result.
\* cancel() cancels the future the task awaits, which makes the task ready,
\* or sets _must_cancel when there is no pending future to cancel;
\* the end of the supervisor task makes run_until_complete stop the loop
SupResume ==
    /\ kind = "async"
    /\ ready # <<>>
    /\ Head(ready) = "sup"
    /\ sup = "await_slow"
    /\ result' = SlowResult
    /\ cancels' = IF cancels < 2 THEN cancels + 1 ELSE cancels
    /\ IF spinner \in {"done", "cancelled"}
          THEN /\ ready' = Append(Tail(ready), "stop")
               /\ UNCHANGED <<fut_waiter, timers, must_cancel>>
          ELSE IF fut_waiter = "pending"
          THEN /\ fut_waiter' = "cancelled"
               /\ timers' = timers \ {"spin"}
               /\ ready' = Tail(ready) \o <<"spin", "stop">>
               /\ UNCHANGED must_cancel
          ELSE /\ must_cancel' = TRUE
               /\ ready' = Append(Tail(ready), "stop")
               /\ UNCHANGED <<fut_waiter, timers>>
    /\ sup' = "done"
    /\ UNCHANGED <<kind, done_event, spinner, char, shown, late_waits,
                   frames>>
    /\ UNCHANGED <<pvars, tvars, svars, fvars, mvars>>

\* the spin task runs from its start or from its await to the next await:
\* a CancelledError thrown at the await is caught and breaks the loop (one
\* thrown at the start, before the try, would cancel the task); otherwise
\* the line is cleared (after a sleep), the next char is printed and spin
\* suspends in asyncio.sleep(0.1)
SpinRun ==
    /\ kind = "async"
    /\ ready # <<>>
    /\ Head(ready) = "spin"
    /\ ready' = Tail(ready)
    /\ IF CancelDelivered(fut_waiter, must_cancel)
          THEN /\ spinner' = IF spinner = "created" THEN "cancelled"
                                                    ELSE "done"
               /\ must_cancel' = FALSE
               /\ fut_waiter' = "none"
               /\ UNCHANGED <<char, shown, timers, frames>>
          ELSE /\ char' = IF spinner = "created" THEN char ELSE NextChar(char)
               /\ shown' = TRUE
               /\ frames' = CountFrame(frames)
               /\ spinner' = "sleeping"
               /\ fut_waiter' = "pending"
               /\ timers' = timers \cup {"spin"}
               /\ UNCHANGED must_cancel
    /\ UNCHANGED <<kind, done_event, sup, result, late_waits, cancels>>
    /\ UNCHANGED <<pvars, tvars, svars, fvars, mvars>>

\* the loop stops when the supervisor task is done; asyncio.run cancels the
\* tasks that are not done, runs the loop until they are, and returns
RunStop ==
    /\ kind = "async"
    /\ ready # <<>>
    /\ Head(ready) = "stop"
    /\ IF spinner \in {"done", "cancelled"}
          THEN /\ sup' = "returned"
               /\ ready' = Tail(ready)
               /\ UNCHANGED <<cancels, fut_waiter, timers, must_cancel>>
          ELSE /\ cancels' = IF cancels < 2 THEN cancels + 1 ELSE cancels
               /\ sup' = sup
               /\ IF fut_waiter = "pending"
                     THEN /\ fut_waiter' = "cancelled"
                          /\ timers' = timers \ {"spin"}
                          /\ ready' = Tail(ready) \o <<"spin", "stop">>
                          /\ UNCHANGED must_cancel
                     ELSE /\ must_cancel' = TRUE
                          /\ ready' = Append(Tail(ready), "stop")
                          /\ UNCHANGED <<fut_waiter, timers>>
    /\ UNCHANGED <<kind, done_event, spinner, char, shown, result,
                   late_waits,
                   frames>>
    /\ UNCHANGED <<pvars, tvars, svars, fvars, mvars>>

\* the event loop runs the callback at the head of its ready queue
RunHandle ==
    \/ SupStart
    \/ SupResume
    \/ SpinRun
    \/ RunStop

NextAsync ==
    \/ RunHandle
    \/ \E t \in {"slow", "spin"} : TimerFire(t)

\* a worker process is lost (killed, or it dies of an error) after it was
\* started and before it has put its done-marker
WorkerCrash(w) ==
    /\ w \in Workers
    /\ wpc[w] \in {"get", "put", "mark"}
    /\ wpc' = [wpc EXCEPT ![w] = "crashed"]
    /\ UNCHANGED <<numbers, procs, jobs, results, mpc, jput, pstarted, sput,
                   wn, checked, procs_done, deqCount, checkCalls, pillsTaken,
                   markersPut>>
    /\ UNCHANGED tvars
    /\ UNCHANGED svars
    /\ UNCHANGED spvars
    /\ UNCHANGED mvars
    /\ UNCHANGED fvars

\* procs.py in an environment where worker processes may be lost
NextProcsCrash ==
    \/ MainProcs
    \/ \E w \in Workers : WorkerGet(w)
    \/ \E w \in Workers : WorkerCheckPut(w)
    \/ \E w \in Workers : WorkerDone(w)
    \/ \E w \in Workers : WorkerCrash(w)

Init == InitThreads /\ IdleSeq /\ IdleProcs

Next == MainThread \/ PoolThreads

Spec == Init /\ [][Next]_vars

SpecSeq == InitSeq /\ [][NextSeq]_vars

SpecProcs == InitProcs /\ [][NextProcs]_vars

SpecFutures == InitFutures /\ [][NextFutures]_vars

SpecMap == InitMap /\ [][NextMap]_vars

SpecSpinner == InitSpinner /\ [][NextSpinner]_vars

SpecAsync == InitAsync /\ [][NextAsync]_vars

\* The event loop runs every ready callback, and every timer fires.
FairSpecAsync ==
    /\ SpecAsync
    /\ WF_vars(RunHandle)
    /\ \A t \in {"slow", "spin"} : WF_vars(TimerFire(t))

\* The operating system schedules the supervisor and the spinner thread or
\* process again and again; time.sleep(3) and done.wait(0.1) return.
FairSpecSpinner ==
    /\ SpecSpinner
    /\ WF_vars(SupervisorStep)
    /\ WF_vars(SpinStep)

\* either concurrent program: the thread pool of flags2_threadpool.py or the
\* processes of procs.py
InitAny == Init \/ InitProcs

NextAny == Next \/ NextProcs

SpecAny == InitAny /\ [][NextAny]_vars

SpecProcsCrash == InitProcs /\ [][NextProcsCrash]_vars

\* The operating system schedules every runnable process again and again.
FairSpecProcs ==
    /\ SpecProcs
    /\ WF_vars(MainProcs)
    /\ \A w \in 1..MaxProcs : WF_vars(WorkerStep(w))

(***************************************************************************)
(* Claims about getflags/flags2_threadpool.py and flags2_sequential.py     *)
(***************************************************************************)
CounterSum == counter["OK"] + counter["NOT_FOUND"] + counter["ERROR"]

\* the category a job belongs to: what it returned, or ERROR when it failed
ClassOf(cc) ==
    LET o == download_one(cc) IN IF o.exc = "None" THEN o.value ELSE "ERROR"

\* the tally that counts each job of codes[i], i \in S, once
TallyOf(codes, S) ==
    [s \in DownloadStatus |-> Cardinality({i \in S : ClassOf(codes[i]) = s})]

JobExceptions == {"HTTPStatusError", "RequestError", "OSError"}

\* C1: when download_many (thread pool) returns and no interrupt occurred,
\* the counts of the returned Counter add up to the number of jobs.
C1_SumEqualsN ==
    (tpc = "returned" /\ interruptedAt = 0) => CounterSum = Len(cc_list)

\* the locals the drain loop leaves when it takes the futures of to_do in
\* submission order, from future i on
RECURSIVE LocalsInOrder(_, _)
LocalsInOrder(loc, i) ==
    IF i > Len(to_do) THEN loc
    ELSE LocalsInOrder(LoopBody(loc.status, loc.error_msg,
                                download_one(to_do[i])), i + 1)

\* the Counter download_many returns when the futures complete and are
\* drained in submission order
CounterInSubmissionOrder ==
    LET loc == LocalsInOrder([status |-> UNBOUND, error_msg |-> UNBOUND], 1)
    IN AfterLoop(loc.status, loc.error_msg, EmptyCounter).counter

\* C3: the Counter download_many (thread pool) returns does not depend on
\* the order in which the futures complete: whenever it returns without
\* interrupt, the Counter is the one the same batch gives when its futures
\* are drained in submission order.
C3_TallyDetermined ==
    (tpc = "returned" /\ interruptedAt = 0)
        => counter = CounterInSubmissionOrder

\* C4: no exception raised by a job ever leaves download_many, and when it
\* returns without interrupt each job is tallied in its category: OK,
\* NOT_FOUND (404 only), ERROR (any other failure).
C4_Classification ==
    /\ texc \notin JobExceptions
    /\ (tpc = "returned" /\ interruptedAt = 0)
          => counter = TallyOf(cc_iter, 1..Len(cc_iter))

\* C8: once the drain loop has caught a KeyboardInterrupt it is left, no
\* exception is raised and download_many returns normally.
C8_InterruptReturns ==
    interruptedAt # 0
        => (tpc \in {"tally", "exit", "returned"} /\ texc = "None")

\* C9: when download_many (thread pool) ends after an interrupt caught in
\* the drain loop, it returns, and the Counter is the tally of exactly the
\* futures drained before the interrupt.
C9_TallyAfterInterrupt ==
    (interruptedAt # 0 /\ tpc \in {"returned", "raised"})
        => (tpc = "returned" /\ counter = TallyOf(to_do, drained))

\* C10: control leaves download_many (thread pool), by return or by an
\* exception, only when every job of the batch has been submitted and has
\* completed, so that no worker thread is still running.
C10_CleanShutdown ==
    tpc \in {"returned", "raised"}
        => /\ Len(to_do) = Len(cc_list)
           /\ \A f \in Futures : fstate[f] = "done"
           /\ Running = {}

\* the interrupt path: jobs were unfinished when the with-block was left
C10_Witness ==
    /\ tpc = "returned"
    /\ interruptedAt # 0
    /\ leftAtExit # {}
    /\ \A f \in Futures : fstate[f] = "done"

(***************************************************************************)
(* Claims about primes/procs.py                                            *)
(***************************************************************************)
NoSentinelJob == \A i \in 1..Len(numbers) : numbers[i] # 0

\* C2: with W >= 1 workers and N jobs none of which is the sentinel 0,
\* report returns having counted exactly W done-markers and exactly N
\* results (checked = N), whatever the interleaving was.
C2_ReportCounts ==
    (mpc = "returned" /\ procs >= 1 /\ NoSentinelJob)
        => (procs_done = procs /\ checked = Len(numbers))

C2_Witness ==
    /\ mpc = "returned"
    /\ procs = 2
    /\ NoSentinelJob
    /\ Len(numbers) = 2
    /\ checked = 2
    /\ procs_done = 2

\* C5: every job put on the job queue is dequeued at most once, by one
\* worker, and check() runs on it at most once; when report returns (W >= 1,
\* no sentinel-valued job) every job was dequeued and checked exactly once.
C5_AtMostOnce ==
    \A j \in 1..Len(numbers) :
        /\ deqCount[j] <= 1
        /\ checkCalls[j] <= 1
        /\ Cardinality({w \in Workers : wpc[w] = "put" /\ wn[w].id = j}) <= 1
        /\ (mpc = "returned" /\ procs >= 1 /\ NoSentinelJob)
              => (deqCount[j] = 1 /\ checkCalls[j] = 1)

C5_Witness ==
    /\ procs = 2
    /\ Len(numbers) = 2
    /\ NoSentinelJob
    /\ \A j \in 1..Len(numbers) : deqCount[j] = 1 /\ checkCalls[j] = 1
    /\ \E w1, w2 \in Workers : w1 # w2 /\ wn[w1].id # 0 /\ wn[w2].id # 0

\* C6: start_jobs puts exactly W sentinels; a worker never dequeues a
\* second sentinel, puts at most one done-marker PrimeResult(0, False, 0.0),
\* and has exited exactly when it has put it; when report returns every
\* worker has dequeued one sentinel, put one marker and exited.
C6_SentinelShutdown ==
    /\ sput <= procs
    /\ (mpc \in {"report", "returned"} => sput = procs)
    /\ \A i \in 1..Len(results) :
          results[i].n = 0 => results[i] = PrimeResult(0, FALSE, 0)
    /\ \A w \in Workers :
          /\ pillsTaken[w] <= 1
          /\ markersPut[w] <= pillsTaken[w]
          /\ (wpc[w] = "exited") = (markersPut[w] = 1)
          /\ (wpc[w] = "mark") = (pillsTaken[w] = 1 /\ markersPut[w] = 0)
    /\ (mpc = "returned" /\ procs >= 1)
          => \A w \in Workers :
                pillsTaken[w] = 1 /\ markersPut[w] = 1 /\ wpc[w] = "exited"

C6_Witness ==
    /\ mpc = "returned"
    /\ procs = 2
    /\ Len(numbers) >= 2
    /\ NoSentinelJob
    /\ \A w \in Workers : pillsTaken[w] = 1 /\ wpc[w] = "exited"

TerminatedProcs ==
    /\ mpc = "returned"
    /\ \A w \in Workers : wpc[w] = "exited" /\ markersPut[w] = 1
    /\ (procs >= 1 /\ NoSentinelJob)
          => \A j \in 1..Len(numbers) : checkCalls[j] = 1

\* C7: under fair scheduling of the workers and the main process the run
\* terminates: all N results and all W done-markers are put on the result
\* queue, every worker exits and report returns.
C7_Termination == <>TerminatedProcs

C7_Witness ==
    /\ TerminatedProcs
    /\ procs = 2
    /\ Len(numbers) = 2
    /\ NoSentinelJob
    /\ jobs = <<>>

\* C11: bounded concurrency of the thread pool: in every reachable state of
\* download_many the number of jobs whose download_one call is executing,
\* and the number of worker threads holding a work item, is at most
\* max_workers (concur_req), also when there are more jobs than workers.
C11_BoundedConcurrency ==
    /\ Cardinality(Running) <= concur_req
    /\ Cardinality(Active) <= concur_req

C11_Witness ==
    /\ Len(to_do) > concur_req
    /\ Cardinality(Running) = concur_req
    /\ Queued # {}

\* C12: a batch that contains the reserved sentinel value 0 is refused by
\* the dispatcher: no job of value 0 is ever put on the job queue, and no
\* run returns with a job of the batch that was never checked.
C12_SentinelRefused ==
    /\ \A i \in 1..Len(jobs) : jobs[i].id # 0 => jobs[i].n # 0
    /\ (mpc = "returned" /\ procs >= 1 /\ jput > 0)
          => \A j \in 1..Len(numbers) : checkCalls[j] = 1

LostWorkers == {w \in Workers : wpc[w] = "crashed"}

\* C13: if a worker process is lost before it has put its done-marker,
\* report never returns: procs_done stays below the number of workers, and
\* once the result queue is drained the main process is blocked in
\* results.get() with nothing left that could put a result.
C13_LostWorkerBlocksReport ==
    LostWorkers # {} =>
        /\ mpc # "returned"
        /\ procs_done < procs
        /\ Cardinality({w \in Workers : markersPut[w] = 1})
              <= procs - Cardinality(LostWorkers)
        /\ (/\ mpc = "report"
            /\ results = <<>>
            /\ \A w \in Workers : wpc[w] \in {"exited", "crashed"})
              => ~ENABLED NextProcsCrash

C13_Witness ==
    /\ procs = 2
    /\ Len(numbers) = 2
    /\ Cardinality(LostWorkers) = 1
    /\ \E w \in Workers : wpc[w] = "exited"
    /\ mpc = "report"
    /\ procs_done = 1
    /\ checked >= 1
    /\ results = <<>>

\* the futures as_completed holds ready: finished and not yet yielded
ReadyFutures == snap \cup Range(arrived)

\* C14: the drain loop of the thread pool consumes futures as they
\* complete, not in submission order: a consumed future is done; no future
\* is consumed twice (a yielded future is never ready again, and no future
\* is ready twice); and while the loop drains, every finished future not
\* yet consumed is ready behind finished futures only, so that next() can
\* yield at once, whatever earlier-submitted jobs are still unfinished.
C14_CompletionOrder ==
    /\ \A f \in yielded : fstate[f] = "done"
    /\ \A f \in ReadyFutures : fstate[f] = "done"
    /\ snap \cap yielded = {}
    /\ Range(arrived) \cap yielded = {}
    /\ snap \cap Range(arrived) = {}
    /\ \A i, j \in 1..Len(arrived) : arrived[i] = arrived[j] => i = j
    /\ (tpc = "drain" /\ waiting)
          => \A f \in Futures :
                (fstate[f] = "done" /\ f \notin yielded)
                   => (f \in ReadyFutures /\ Yieldable # {})

C14_Witness ==
    /\ tpc = "drain"
    /\ Len(to_do) = 3
    /\ 2 \in drained
    /\ 1 \notin yielded
    /\ fstate[1] = "running"
    /\ 3 \in Yieldable

\* C15: the tally has a single writer.  A step of a pool thread leaves the
\* Counter and every other local of download_many unchanged and changes
\* one future only; a step of a procs worker leaves checked, procs_done and
\* the other variables of the main process unchanged and touches only the
\* queues and the worker's own state.  The Counter is changed only by the
\* tally statements of download_many, checked and procs_done only by report.
C15_SingleWriterTally ==
    [][ /\ PoolThreads =>
              /\ UNCHANGED <<cc_list, concur_req, tpc, to_do, waiting, snap,
                             yielded, status, error_msg, counter, texc>>
              /\ \E f \in Futures :
                    \A g \in Futures \ {f} :
                       fstate'[g] = fstate[g] /\ foutcome'[g] = foutcome[g]
        /\ (\E w \in Workers : WorkerStep(w)) =>
              UNCHANGED <<numbers, procs, mpc, jput, pstarted, sput, checked,
                          procs_done>>
        /\ (counter' # counter) => Tally
        /\ (checked' # checked \/ procs_done' # procs_done) => ReportGet
      ]_vars

C15_Witness ==
    /\ tpc = "exit"
    /\ CounterSum = 1
    /\ Running # {}

\* C16: start_jobs puts the jobs on the job queue in the order of NUMBERS
\* and every one of them before the first sentinel: in the queue no
\* sentinel stands before a job and the jobs stand in submission order,
\* and when a worker has dequeued a sentinel of start_jobs every job has
\* been dequeued already.
C16_JobsBeforeSentinels ==
    /\ sput > 0 => jput = Len(numbers)
    /\ \A i, j \in 1..Len(jobs) :
          i < j =>
             /\ jobs[i].id = 0 => jobs[j].id = 0
             /\ (jobs[i].id # 0 /\ jobs[j].id # 0) => jobs[i].id < jobs[j].id
    /\ \A i \in 1..Len(jobs) :
          jobs[i].id # 0 => jobs[i].n = numbers[jobs[i].id]
    /\ \A w \in Workers :
          (wpc[w] \in {"mark", "exited"} /\ wn[w].id = 0)
             => \A j \in 1..Len(numbers) : deqCount[j] >= 1

C16_Witness ==
    /\ procs = 2
    /\ Len(numbers) = 2
    /\ NoSentinelJob
    /\ \E w \in Workers : wpc[w] = "mark" /\ wn[w].id = 0
    /\ \E w \in Workers : wpc[w] = "put" /\ wn[w].id = 2
    /\ Len(jobs) = 1

Started == {f \in Futures : fstate[f] \in {"running", "done"}}

\* C17 as stated: jobs begin execution in submission order: a job never
\* starts before a job submitted earlier has started.
C17_StartInSubmissionOrder ==
    \A f, g \in Futures : (f < g /\ g \in Started) => f \in Started

\* C17: backpressure in the thread pool: at most concur_req jobs are held
\* by worker threads and the others wait in the work queue; the worker
\* threads take the jobs from the queue in submission order (a job is never
\* taken before a job submitted earlier has been taken, so a job starts
\* only when every earlier job was taken); with one worker thread the jobs
\* also start in submission order.
C17_Backpressure ==
    /\ Cardinality(Active) <= concur_req
    /\ Cardinality(Queued) + Cardinality({f \in Futures : fstate[f] = "done"})
          >= Len(to_do) - concur_req
    /\ \A f, g \in Futures : (f < g /\ g \notin Queued) => f \notin Queued
    /\ concur_req = 1 => C17_StartInSubmissionOrder

C17_Witness ==
    /\ concur_req = 2
    /\ Len(to_do) = 3
    /\ fstate[1] = "taken"
    /\ fstate[2] = "done"
    /\ fstate[3] = "queued"

\* C18: the sequential download_many runs the jobs one at a time in sorted
\* order and tallies each job it has run to the end exactly once; when it
\* returns without interrupt the counts add up to the number of jobs; when
\* no job fails with anything but an httpx error no exception leaves it;
\* after an interrupt at job i no later job is run and the counts are
\* those of the jobs before i.
C18_SequentialTally ==
    /\ tpc # "seq_start" =>
          /\ Len(cc_iter) = Len(cc_list)
          /\ Range(cc_iter) = Range(cc_list)
          /\ \A i, j \in 1..Len(cc_iter) : i < j => cc_iter[i] <= cc_iter[j]
    /\ drained \subseteq 1..cc_pos
    /\ \A i \in 1..cc_pos : i \notin drained => i = cc_pos
    /\ counter = TallyOf(cc_iter, drained)
    /\ (tpc = "returned" /\ interruptedAt = 0) =>
          /\ drained = 1..Len(cc_list)
          /\ CounterSum = Len(cc_list)
    /\ (\A i \in 1..Len(cc_list) :
           download_one(cc_list[i]).exc \in {"None"} \cup HttpxErrors)
          => texc = "None"
    /\ interruptedAt # 0 =>
          /\ cc_pos = interruptedAt
          /\ drained = 1..(interruptedAt - 1)
          /\ CounterSum = interruptedAt - 1

C18_Witness ==
    /\ tpc = "returned"
    /\ Len(cc_list) = 3
    /\ interruptedAt = 2
    /\ CounterSum = 1
    /\ cc_list # cc_iter

\* C19 as stated: at the moment report returns both the job queue and the
\* result queue are empty.
C19_QueuesEmptyAtReturn ==
    mpc = "returned" => (jobs = <<>> /\ results = <<>>)

\* C19: no message is left behind: every result and done-marker put is
\* either still on the result queue or was read by report, and a worker
\* that has put its done-marker has exited and puts nothing more; so when
\* report returns with at least one worker the result queue is empty, and
\* when moreover no job is the sentinel 0 the job queue is empty too and
\* every job was dequeued.
C19_NoMessageLeft ==
    /\ Cardinality({j \in 1..Len(numbers) : checkCalls[j] >= 1})
          + Cardinality({w \in Workers : markersPut[w] >= 1})
          = checked + procs_done + Len(results)
    /\ \A w \in Workers : markersPut[w] >= 1 => wpc[w] = "exited"
    /\ (mpc = "returned" /\ procs >= 1) => results = <<>>
    /\ (mpc = "returned" /\ procs >= 1 /\ NoSentinelJob)
          => /\ jobs = <<>>
             /\ \A j \in 1..Len(numbers) : deqCount[j] = 1

C19_Witness ==
    /\ mpc = "returned"
    /\ procs = 2
    /\ Len(numbers) = 2
    /\ NoSentinelJob
    /\ checked = 2
    /\ jobs = <<>>
    /\ results = <<>>

(***************************************************************************)
(* Claims about getflags/flags_threadpool_futures.py                        *)
(***************************************************************************)
\* C20: in flags_threadpool_futures.download_many the with-block is left,
\* and so every worker thread joined, before the as_completed loop starts:
\* while the loop drains, every submitted future is done, none arrives
\* later and next() never has to wait; at most three jobs are held by
\* worker threads at any time; the count returned is the number of
\* submitted jobs, min(5, len(cc_list)), and for a non-empty cc_list whose
\* jobs all succeed download_many does not raise.
C20_DrainsAfterJoin ==
    /\ Cardinality(Active) <= 3
    /\ tpc \in {"fut_drain", "returned", "raised"} =>
          /\ Len(to_do) = Len(cc_list)
          /\ \A f \in Futures : fstate[f] = "done"
          /\ arrived = <<>>
    /\ (tpc = "fut_drain" /\ waiting /\ yielded # Futures) => Yieldable # {}
    /\ tpc = "returned" =>
          /\ cc_arg # <<>>
          /\ Len(to_do) = (IF Len(cc_arg) < 5 THEN Len(cc_arg) ELSE 5)
          /\ count = Len(to_do)
          /\ \A f \in Futures : foutcome[f] = Return(to_do[f])
    /\ tpc = "raised" =>
          \/ cc_arg = <<>>
          \/ \E f \in Futures : foutcome[f].exc # "None"

C20_Witness ==
    /\ tpc = "returned"
    /\ Len(cc_arg) = 6
    /\ count = 5
    /\ to_do = <<1, 2, 3, 4, 7>>

(***************************************************************************)
(* Claims about the pools driven by Executor.map                            *)
(***************************************************************************)
\* C21: in proc_pool.main and flags_threadpool.download_many the iterator
\* of executor.map delivers the results in submission order whatever the
\* order in which the jobs finished: the i-th result delivered is the
\* result of the i-th job submitted, so each job's result is delivered at
\* most once; when the caller returns every job's result was delivered,
\* as many results as jobs; flags_threadpool.download_many returns
\* len(cc_list), and it raises only when a job has raised.
C21_MapOrder ==
    /\ Len(res) = Len(deliveredIdx)
    /\ \A i \in 1..Len(deliveredIdx) :
          /\ deliveredIdx[i] = i
          /\ fstate[i] = "done"
          /\ foutcome[i].exc = "None"
          /\ res[i] = foutcome[i].value
    /\ cc_list # <<>> =>
          \A i \in 1..Len(res) : res[i] = sorted(cc_list)[i]
    /\ numbers # <<>> =>
          \A i \in 1..Len(res) :
             /\ res[i].n = sorted_reverse(numbers)[i]
             /\ res[i].prime = is_prime(res[i].n)
    /\ tpc = "returned" =>
          /\ Len(res) = Len(to_do)
          /\ Len(to_do) = Len(cc_list) + Len(numbers)
          /\ numbers = <<>> => retval = Len(cc_list)
    /\ tpc = "raised" =>
          \E f \in Futures : foutcome[f].exc \notin {"None", "pending"}

C21_Witness ==
    /\ tpc = "returned"
    /\ Len(numbers) = 2
    /\ finished = <<2, 1>>
    /\ deliveredIdx = <<1, 2>>
    /\ res[1].n = 9
    /\ res[2].n = 2

(***************************************************************************)
(* Claims about the spinner programs                                        *)
(***************************************************************************)
C22_Safety ==
    /\ done_event => (result = 42 /\ sup \in {"join", "returned"})
    /\ spinner = "terminated" => done_event
    /\ sup = "returned" => (spinner = "terminated" /\ result = 42)
    /\ late_waits <= 1
    /\ late_waits = 1 => spinner = "terminated"

\* C22: in spinner_thread and spinner_proc the event done is set only
\* after slow() has returned 42; spin never ends before done is set; a
\* wait that spin begins once done is set is its last one and ends the
\* loop; supervisor returns 42, and only after spin has ended; and under
\* fair scheduling spin ends once done is set and supervisor returns.
C22_SpinnerSupervision ==
    /\ []C22_Safety
    /\ (done_event ~> (spinner = "terminated"))
    /\ <>(sup = "returned")

C22_Witness ==
    /\ kind = "thread"
    /\ sup = "returned"
    /\ result = 42
    /\ spinner = "terminated"
    /\ late_waits = 1
    /\ char = 3

\* C23: (spinner_async.supervisor / spin) the spin task leaves its loop only
\* after its cancellation was requested, and it ends by the break, never as
\* a cancelled task; cancel is requested at most once, only after slow() has
\* returned 42, and exactly once by the time supervisor has returned; while
\* the supervisor awaits slow() the spin task is alive and either ready to
\* run or waiting for its timer, so that it is run again and again until
\* slow() returns; every run ends with supervisor returning 42.
C23_Safety ==
    /\ spinner = "done" => cancels >= 1
    /\ spinner # "cancelled"
    /\ cancels <= 1
    /\ cancels >= 1 => (result = SlowResult /\ sup \in {"done", "returned"})
    /\ sup \in {"done", "returned"} => (cancels = 1 /\ result = SlowResult)
    /\ sup = "await_slow" =>
          /\ spinner \in {"created", "sleeping"}
          /\ ("spin" \in timers) # (\E i \in 1..Len(ready) : ready[i] = "spin")
          /\ spinner = "created" => "spin" \notin timers

C23_CooperativeSpinner ==
    /\ []C23_Safety
    /\ \A n \in 0..(MaxFrames - 1) :
          (sup = "await_slow" /\ frames = n)
             ~> (sup # "await_slow" \/ frames = n + 1)
    /\ <>(sup = "returned" /\ result = SlowResult /\ spinner = "done")

C23_Witness ==
    /\ kind = "async"
    /\ sup = "returned"
    /\ result = 42
    /\ spinner = "done"
    /\ cancels = 1
    /\ frames = 3
    /\ char = 3

=============================================================================
